---- MODULE Spec2Model ----
(***************************************************************************)
(* nd_okta_auth: the Okta login object (okta.py) and the AWS federated      *)
(* session (aws.py).                                                        *)
(*                                                                         *)
(* One Okta object driven by one caller, one call at a time.  A call runs   *)
(* from its start action to pc = "idle"; `outcome` is what the call gave    *)
(* its caller: a return value or the exception it raised.  Every HTTP       *)
(* response is an input chosen by the provider (or whatever answers in its  *)
(* place): its status code, whether its body parses as JSON, and which of   *)
(* the fields the code reads it carries.                                    *)
(*                                                                         *)
(* One Session object driven by the same caller.  Its inputs are the SAML   *)
(* assertion as roles() reads it, what the user types at the role prompt,   *)
(* what assume_role_with_saml answers and the time utcnow() gives.  Spec    *)
(* runs the Okta object, SpecAws the Session.                               *)
(***************************************************************************)
EXTENDS Integers, Sequences, FiniteSets, TLC

\* ------------------------------------------------------------------ bounds
\* Longest factor list a login response offers.
MaxFactors == 3
\* Most re-requests of the `next` link in one push verification.
MaxPolls == 2
\* Longest passcode the caller hands to validate_mfa.
MaxPasscodeLen == 7
\* Most roles a SAML assertion names.
MaxRoles == 3
\* Latest time, in seconds, at which a validity property is read.
MaxNow == 2

\* --------------------------------------------------------------- constants
\* okta.py:138  len(passcode) != 6
PasscodeLen == 6
\* aws.py:169  datetime.timedelta(seconds=600)
RenewalBuffer == 600

\* Python's None, and a key a dict does not have.
None == "None"
Absent == "<absent>"
\* An exception raised with no arguments.
NoArgs == "<no args>"
\* What UnknownError(e.response.body) would carry.
ResponseBody == "<response body>"

Tokens == {"tok1", "tok2"}
StateTokens == {"st1"}
FactorIds == <<"f1", "f2", "f3", "f4">>
FactorTypes == {"push", "token:software:totp", "sms"}
Href == "https://acme.okta.com/api/v1/authn/factors/f/lifecycle/poll"

\* A value the caller may pass for organization, username or password.
UserInputs == {None, "", "acme"}

\* ---------------------------------------------------------------- responses
\* An HTTP response as the code reads it.  `json`: resp.json() parses the
\* body.  The other fields are the keys of the parsed body the code reads;
\* `profile`: the body holds _embedded.user.profile.firstName and .lastName;
\* `links`: "href" when _links.next.href is there, "no_next" when _links is
\* there without `next`, Absent when there is no _links.
MkResponse(c, j, st, tok, stt, hf, fs, prof, fr, ln) ==
    [code |-> c, json |-> j, status |-> st, sessionToken |-> tok,
     stateToken |-> stt, hasFactors |-> hf, factors |-> fs,
     profile |-> prof, factorResult |-> fr, links |-> ln]

NoResponse ==
    MkResponse(0, FALSE, Absent, Absent, Absent, FALSE, <<>>, FALSE, Absent, Absent)

\* Factor lists: every ordering of factor types, the ids by position.
FactorLists ==
    UNION {{[k \in 1..n |-> [id |-> FactorIds[k], factorType |-> t[k]]]
              : t \in [1..n -> FactorTypes]} : n \in 0..MaxFactors}

\* Error responses: the body is never read beyond being parsed.
ErrorResponses ==
    {MkResponse(c, j, Absent, Absent, Absent, FALSE, <<>>, FALSE, Absent, Absent)
        : c \in {401, 403, 500}, j \in BOOLEAN}

\* Status codes raise_for_status lets through: 2xx, and 3xx since redirects
\* are not followed.  The code never tells them apart, so 3xx is tried on the
\* answers that end a call at once and 200 stands for both elsewhere.
PassCodes == {200, 302}

UnparsedResponses ==
    {MkResponse(c, FALSE, Absent, Absent, Absent, FALSE, <<>>, FALSE, Absent, Absent)
        : c \in PassCodes}

SuccessResponses ==
    {MkResponse(c, TRUE, "SUCCESS", tok, Absent, FALSE, <<>>, prof, Absent, Absent)
        : c \in PassCodes, tok \in Tokens \cup {Absent}, prof \in BOOLEAN}

AuthnResponses ==
    ErrorResponses \cup UnparsedResponses \cup SuccessResponses
    \cup {MkResponse(c, TRUE, st, Absent, Absent, FALSE, <<>>, FALSE, Absent, Absent)
            : c \in PassCodes,
              st \in {"MFA_ENROLL", "MFA_ENROLL_ACTIVATE", "LOCKED_OUT", Absent}}
    \cup {MkResponse(c, TRUE, st, Absent, stt, hf, IF hf THEN fs ELSE <<>>,
                     FALSE, Absent, Absent)
            : c \in {200}, st \in {"MFA_REQUIRED", "MFA_CHALLENGE"},
              stt \in StateTokens \cup {Absent}, hf \in BOOLEAN, fs \in FactorLists}

VerifyResponses ==
    ErrorResponses \cup UnparsedResponses \cup SuccessResponses
    \cup {MkResponse(c, TRUE, st, Absent, Absent, FALSE, <<>>, FALSE, fr, ln)
            : c \in {200}, st \in {"MFA_CHALLENGE", Absent},
              fr \in {"WAITING", "REJECTED", Absent},
              ln \in {"href", "no_next", Absent}}

Passcodes == {[k \in 1..n |-> "1"] : n \in 0..MaxPasscodeLen}

\* ------------------------------------------------------------------- state
VARIABLES
    organization, username, password,  \* the arguments given to Okta(...)
    constructed,      \* the Okta object exists
    session_token,    \* self.session_token
    op,               \* the method the caller called last
    pc,               \* where that call stands; "idle" once it has ended
    outcome,          \* what the call gave its caller
    requests,         \* the HTTP requests the call has issued, in order
    auth_ret,         \* auth: the authn response
    i,                \* auth: index of the factor the first loop is at
    fid, state_token, \* okta_verify_with_push / validate_mfa: arguments
    passcode,         \* validate_mfa: argument
    push_ret,         \* okta_verify_with_push: the latest response
    mfa_ret,          \* validate_mfa: the response
    polls,            \* okta_verify_with_push: re-requests issued so far
    slept,            \* a time.sleep ended since push_ret was received
    interrupted,      \* a KeyboardInterrupt was delivered during the call
    token_before      \* session_token when the call started

\* The Session object of aws.py, driven by the same caller.  Its methods do
\* not suspend: each call is one step.
VARIABLES
    session_made,          \* the Session object exists
    assertion,             \* self.assertion: the SAML assertion as roles() reads it
    profile,               \* self.profile
    aws_access_key_id,     \* self.aws_access_key_id
    aws_secret_access_key, \* self.aws_secret_access_key
    aws_session_token,     \* self.aws_session_token
    sess_session_token,    \* self.session_token of the Session (aws.py:223)
    expiration,            \* self.expiration
    aws_op,                \* the Session method the caller called last
    aws_outcome,           \* what that call gave its caller
    prompts,               \* assume_role: how often input() asked for a role
    role_selection,        \* assume_role: what the user typed at the prompt
    sts_requests,          \* assume_role: the calls of assume_role_with_saml
    sts_response,          \* assume_role: what assume_role_with_saml answered
    written,               \* assume_role: the profiles handed to add_profile
    now,                   \* utcnow() as the last validity property read it
    before,                \* the fields of the Session when the call started
    latest                 \* the latest answer of assume_role_with_saml that
                           \* carried credentials, over all calls

oktaVars == <<organization, username, password, constructed, session_token, op, pc,
              outcome, requests, auth_ret, i, fid, state_token, passcode, push_ret,
              mfa_ret, polls, slept, interrupted, token_before>>

awsVars == <<session_made, assertion, profile, aws_access_key_id,
             aws_secret_access_key, aws_session_token, sess_session_token,
             expiration, aws_op, aws_outcome, prompts, role_selection,
             sts_requests, sts_response, written, now, before, latest>>

vars == <<oktaVars, awsVars>>

\* --------------------------------------------------------------- outcomes
NoOutcome == [kind |-> "none", arg |-> NoArgs, fid |-> NoArgs, state_token |-> NoArgs]
Returned(v) == [kind |-> "return", arg |-> v, fid |-> NoArgs, state_token |-> NoArgs]
Raised(e, a) == [kind |-> e, arg |-> a, fid |-> NoArgs, state_token |-> NoArgs]
PasscodeRequired(f, st) ==
    [kind |-> "PasscodeRequired", arg |-> NoArgs, fid |-> f, state_token |-> st]

\* One entry of `requests`: the path posted to, the factor id in the path
\* and whether the posted data holds a passCode.
Req(path, f, pass) == [path |-> path, fid |-> f, passCode |-> pass]

\* ----------------------------------------------------------------- helpers
\* IsEmptyInput with the `is None` test forgotten.
IsEmptyInput_NoNone(user_input) ==
    user_input = ""

\* okta.py:68  user_input == '' or user_input is None
IsEmptyInput(user_input) ==
    user_input = "" \/ user_input = None

\* okta.py:97-104  the body is parsed first, the status is checked after.
_request(r) ==
    IF ~r.json THEN "ValueError"
    ELSE IF r.code >= 400 /\ r.code < 600 THEN "HTTPError"
    ELSE "ok"

\* okta.py:116-120  the profile names are read (for the log line) before the
\* token is stored; a missing key raises KeyError and stores nothing.
set_token(ret) ==
    IF ~ret.profile THEN [exc |-> "KeyError", arg |-> "_embedded.user.profile", session_token |-> None]
    ELSE IF ret.sessionToken = Absent
    THEN [exc |-> "KeyError", arg |-> "sessionToken", session_token |-> None]
    ELSE [exc |-> None, arg |-> NoArgs, session_token |-> ret.sessionToken]

\* PasscodeOk rejecting only passcodes that are too short.
PasscodeOk_AtLeast(p) ==
    Len(p) >= PasscodeLen

\* okta.py:138
PasscodeOk(p) ==
    Len(p) = PasscodeLen

\* The first index k >= from of a factor of type t in fs, or 0.
FirstFactor(fs, t, from) ==
    LET ks == {k \in from..Len(fs) : fs[k].factorType = t}
    IN  IF ks = {} THEN 0 ELSE CHOOSE k \in ks : \A m \in ks : k <= m

\* ----------------------------------------------------------------- actions
Finish(out) ==
    /\ pc' = "idle"
    /\ outcome' = out

\* What every call resets as it starts.
CallStart(o) ==
    /\ op' = o
    /\ requests' = <<>>
    /\ auth_ret' = NoResponse
    /\ push_ret' = NoResponse
    /\ mfa_ret' = NoResponse
    /\ i' = 0
    /\ polls' = 0
    /\ slept' = FALSE
    /\ interrupted' = FALSE
    /\ token_before' = session_token

\* okta.py:62-74  Okta(organization, username, password)
__init__ ==
    /\ pc = "idle"
    /\ ~constructed
    /\ \E org \in UserInputs, user \in UserInputs, pw \in UserInputs :
        /\ organization' = org
        /\ username' = user
        /\ password' = pw
        /\ IF \E u \in {org, user, pw} : IsEmptyInput(u)
           THEN /\ constructed' = FALSE
                /\ outcome' = Raised("EmptyInput", NoArgs)
                /\ UNCHANGED session_token
           ELSE /\ constructed' = TRUE
                /\ session_token' = None
                /\ outcome' = Returned(None)
    /\ pc' = "idle"
    /\ CallStart("__init__")
    /\ UNCHANGED <<fid, state_token, passcode>>
    /\ UNCHANGED awsVars

\* okta.py:192-213  the caller calls auth().
auth ==
    /\ pc = "idle"
    /\ constructed
    /\ CallStart("auth")
    /\ pc' = "auth_request"
    /\ outcome' = NoOutcome
    /\ fid' = NoArgs
    /\ state_token' = NoArgs
    /\ passcode' = <<>>
    /\ UNCHANGED <<organization, username, password, constructed, session_token>>
    /\ UNCHANGED awsVars

\* okta.py:216-220  the except clause: only 401 raises; any other HTTPError
\* leaves the clause with `ret` never assigned, and line 220 reads it.
AuthOnHTTPError(r) ==
    IF r.code = 401 THEN Raised("InvalidPassword", NoArgs)
    ELSE Raised("UnboundLocalError", "ret")

\* AuthStatus with the two factor loops in the other order: the totp loop
\* is entered without the push loop having run.
AuthStatus_TotpFirst(ret) ==
    LET status == IF ret.status = Absent THEN None ELSE ret.status
    IN  IF status = "SUCCESS"
        THEN LET t == set_token(ret)
             IN  IF t.exc # None
                 THEN Finish(Raised(t.exc, t.arg)) /\ UNCHANGED <<session_token, i>>
                 ELSE /\ session_token' = t.session_token
                      /\ Finish(Returned(None))
                      /\ UNCHANGED i
        ELSE IF status \in {"MFA_ENROLL", "MFA_ENROLL_ACTIVATE"}
        THEN Finish(Raised("UnknownError", NoArgs)) /\ UNCHANGED <<session_token, i>>
        ELSE IF status \in {"MFA_REQUIRED", "MFA_CHALLENGE"}
        THEN IF ~ret.hasFactors
             THEN Finish(Raised("KeyError", "factors")) /\ UNCHANGED <<session_token, i>>
             ELSE /\ pc' = "auth_totp_loop"
                  /\ i' = 1
                  /\ UNCHANGED <<outcome, session_token>>
        ELSE Finish(Raised("UnknownError", status)) /\ UNCHANGED <<session_token, i>>

\* AuthStatus with the enrollment statuses raised like an unrecognized
\* status: UnknownError carrying the status.
AuthStatus_EnrollStatus(ret) ==
    LET status == IF ret.status = Absent THEN None ELSE ret.status
    IN  IF status = "SUCCESS"
        THEN LET t == set_token(ret)
             IN  IF t.exc # None
                 THEN Finish(Raised(t.exc, t.arg)) /\ UNCHANGED <<session_token, i>>
                 ELSE /\ session_token' = t.session_token
                      /\ Finish(Returned(None))
                      /\ UNCHANGED i
        ELSE IF status \in {"MFA_REQUIRED", "MFA_CHALLENGE"}
        THEN IF ~ret.hasFactors
             THEN Finish(Raised("KeyError", "factors")) /\ UNCHANGED <<session_token, i>>
             ELSE /\ pc' = "auth_push_loop"
                  /\ i' = 1
                  /\ UNCHANGED <<outcome, session_token>>
        ELSE Finish(Raised("UnknownError", status)) /\ UNCHANGED <<session_token, i>>

\* okta.py:220-232, 249  the dispatch on the login status.
AuthStatus(ret) ==
    LET status == IF ret.status = Absent THEN None ELSE ret.status
    IN  IF status = "SUCCESS"
        THEN LET t == set_token(ret)
             IN  IF t.exc # None
                 THEN Finish(Raised(t.exc, t.arg)) /\ UNCHANGED <<session_token, i>>
                 ELSE /\ session_token' = t.session_token
                      /\ Finish(Returned(None))
                      /\ UNCHANGED i
        ELSE IF status \in {"MFA_ENROLL", "MFA_ENROLL_ACTIVATE"}
        THEN Finish(Raised("UnknownError", NoArgs)) /\ UNCHANGED <<session_token, i>>
        ELSE IF status \in {"MFA_REQUIRED", "MFA_CHALLENGE"}
        THEN IF ~ret.hasFactors
             THEN Finish(Raised("KeyError", "factors")) /\ UNCHANGED <<session_token, i>>
             ELSE /\ pc' = "auth_push_loop"
                  /\ i' = 1
                  /\ UNCHANGED <<outcome, session_token>>
        ELSE Finish(Raised("UnknownError", status)) /\ UNCHANGED <<session_token, i>>

\* okta.py:211-220  the POST to /authn and what auth does with the answer.
auth_request ==
    /\ pc = "auth_request"
    /\ \E r \in AuthnResponses :
        /\ requests' = Append(requests, Req("/authn", NoArgs, FALSE))
        /\ auth_ret' = r
        /\ LET q == _request(r)
           IN  IF q = "ValueError"
               THEN Finish(Raised("ValueError", NoArgs)) /\ UNCHANGED <<session_token, i>>
               ELSE IF q = "HTTPError"
               THEN Finish(AuthOnHTTPError(r)) /\ UNCHANGED <<session_token, i>>
               ELSE AuthStatus(r)
    /\ UNCHANGED <<organization, username, password, constructed, op, fid,
                   state_token, passcode, push_ret, mfa_ret, polls, slept,
                   interrupted, token_before>>
    /\ UNCHANGED awsVars

\* okta.py:232-236  the first loop: the next push factor at or after i, if
\* any, is verified; its arguments are evaluated before the call.
auth_push_loop ==
    /\ pc = "auth_push_loop"
    /\ LET fs == auth_ret.factors
           n == FirstFactor(fs, "push", i)
       IN  IF n = 0
           THEN /\ pc' = "auth_totp_loop"
                /\ i' = Len(fs) + 1
                /\ UNCHANGED <<outcome, fid, state_token, polls, slept, push_ret>>
           ELSE IF auth_ret.stateToken = Absent
           THEN /\ Finish(Raised("KeyError", "stateToken"))
                /\ i' = n
                /\ UNCHANGED <<fid, state_token, polls, slept, push_ret>>
           ELSE /\ pc' = "push_trigger"
                /\ i' = n
                /\ fid' = fs[n].id
                /\ state_token' = auth_ret.stateToken
                /\ polls' = 0
                /\ slept' = FALSE
                /\ push_ret' = NoResponse
                /\ UNCHANGED outcome
    /\ UNCHANGED <<organization, username, password, constructed, session_token,
                   op, requests, auth_ret, passcode, mfa_ret, interrupted,
                   token_before>>
    /\ UNCHANGED awsVars

\* okta.py:243-249  the second loop, and the final raise.
auth_totp_loop ==
    /\ pc = "auth_totp_loop"
    /\ LET fs == auth_ret.factors
           n == FirstFactor(fs, "token:software:totp", 1)
       IN  IF n = 0
           THEN Finish(Raised("UnknownError", auth_ret.status))
           ELSE IF auth_ret.stateToken = Absent
           THEN Finish(Raised("KeyError", "stateToken"))
           ELSE Finish(PasscodeRequired(fs[n].id, auth_ret.stateToken))
    /\ UNCHANGED <<organization, username, password, constructed, session_token,
                   op, requests, auth_ret, i, fid, state_token, passcode,
                   push_ret, mfa_ret, polls, slept, interrupted, token_before>>
    /\ UNCHANGED awsVars

\* AuthOnPush with `continue` for `break` in the KeyboardInterrupt handler:
\* the loop goes on to the next factor.
AuthOnPush_Continue(res) ==
    IF res = Returned("True")
    THEN Finish(Returned(None)) /\ UNCHANGED i
    ELSE IF res = Returned("False") \/ res.kind = "KeyboardInterrupt"
    THEN pc' = "auth_push_loop" /\ i' = i + 1 /\ UNCHANGED outcome
    ELSE Finish(res) /\ UNCHANGED i

\* okta.py:234-241  what auth does with the end of okta_verify_with_push:
\* True returns, False goes on with the next factor, KeyboardInterrupt breaks
\* out of the first loop, any other exception passes through.
AuthOnPush(res) ==
    IF res = Returned("True")
    THEN Finish(Returned(None)) /\ UNCHANGED i
    ELSE IF res = Returned("False")
    THEN pc' = "auth_push_loop" /\ i' = i + 1 /\ UNCHANGED outcome
    ELSE IF res.kind = "KeyboardInterrupt"
    THEN pc' = "auth_totp_loop" /\ UNCHANGED <<i, outcome>>
    ELSE Finish(res) /\ UNCHANGED i

\* okta_verify_with_push ends with `res` and session_token tok: in its
\* caller auth, or in the caller of the object.
PushExit(res, tok) ==
    /\ session_token' = tok
    /\ IF op = "auth"
       THEN AuthOnPush(res)
       ELSE Finish(res) /\ UNCHANGED i

\* okta.py:178, 189-190  the loop test on a parsed response, and the code
\* after the loop.
PushWhile(ret) ==
    IF ret.status = Absent
    THEN PushExit(Raised("KeyError", "status"), session_token)
    ELSE IF ret.status # "SUCCESS"
    THEN pc' = "push_sleep" /\ UNCHANGED <<outcome, session_token, i>>
    ELSE LET t == set_token(ret)
         IN  IF t.exc # None
             THEN PushExit(Raised(t.exc, t.arg), session_token)
             ELSE PushExit(Returned("True"), t.session_token)

\* okta.py:176, 187  self._request inside okta_verify_with_push: its
\* exceptions are not caught there.
PushReceive(r) ==
    LET q == _request(r)
    IN  IF q # "ok"
        THEN PushExit(Raised(q, NoArgs), session_token)
        ELSE PushWhile(r)

\* okta.py:157  the caller calls okta_verify_with_push(fid, state_token).
okta_verify_with_push ==
    /\ pc = "idle"
    /\ constructed
    /\ CallStart("okta_verify_with_push")
    /\ pc' = "push_trigger"
    /\ outcome' = NoOutcome
    /\ \E f \in {FactorIds[1]}, st \in StateTokens :
        /\ fid' = f
        /\ state_token' = st
    /\ passcode' = <<>>
    /\ UNCHANGED <<organization, username, password, constructed, session_token>>
    /\ UNCHANGED awsVars

\* okta.py:172-178  the POST that triggers the push.
push_trigger ==
    /\ pc = "push_trigger"
    /\ \E r \in VerifyResponses :
        /\ requests' = Append(requests, Req("/authn/factors/verify", fid, FALSE))
        /\ push_ret' = r
        /\ PushReceive(r)
    /\ slept' = FALSE
    /\ UNCHANGED <<organization, username, password, constructed, op, auth_ret,
                   fid, state_token, passcode, mfa_ret, polls, interrupted,
                   token_before>>
    /\ UNCHANGED awsVars

\* okta.py:180-186  time.sleep returns; then the factorResult is looked at,
\* then the `next` link.
push_sleep ==
    /\ pc = "push_sleep"
    /\ slept' = TRUE
    /\ IF push_ret.factorResult \in {Absent, "REJECTED"}
       THEN PushExit(Returned("False"), session_token)
       ELSE IF push_ret.links = Absent
       THEN PushExit(Raised("TypeError", "links"), session_token)
       ELSE IF push_ret.links = "no_next"
       THEN PushExit(Raised("KeyError", "next"), session_token)
       ELSE pc' = "push_next" /\ UNCHANGED <<outcome, session_token, i>>
    /\ UNCHANGED <<organization, username, password, constructed, op, requests,
                   auth_ret, fid, state_token, passcode, push_ret, mfa_ret,
                   polls, interrupted, token_before>>
    /\ UNCHANGED awsVars

\* okta.py:187, 178  the POST to the `next` link.
push_next ==
    /\ pc = "push_next"
    /\ polls < MaxPolls
    /\ \E r \in VerifyResponses :
        /\ requests' = Append(requests, Req(Href, fid, FALSE))
        /\ push_ret' = r
        /\ PushReceive(r)
    /\ polls' = polls + 1
    /\ slept' = FALSE
    /\ UNCHANGED <<organization, username, password, constructed, op, auth_ret,
                   fid, state_token, passcode, mfa_ret, interrupted,
                   token_before>>
    /\ UNCHANGED awsVars

\* push_interrupt with the KeyboardInterrupt caught inside
\* okta_verify_with_push, which then returns False.
push_interrupt_Caught ==
    /\ pc = "push_sleep"
    /\ interrupted' = TRUE
    /\ PushExit(Returned("False"), session_token)
    /\ UNCHANGED <<organization, username, password, constructed, op, requests,
                   auth_ret, fid, state_token, passcode, push_ret, mfa_ret,
                   polls, slept, token_before>>
    /\ UNCHANGED awsVars

\* okta.py:180  KeyboardInterrupt is raised in time.sleep; nothing in
\* okta_verify_with_push catches it.
push_interrupt ==
    /\ pc = "push_sleep"
    /\ interrupted' = TRUE
    /\ PushExit(Raised("KeyboardInterrupt", NoArgs), session_token)
    /\ UNCHANGED <<organization, username, password, constructed, op, requests,
                   auth_ret, fid, state_token, passcode, push_ret, mfa_ret,
                   polls, slept, token_before>>
    /\ UNCHANGED awsVars

\* okta.py:122-140  the caller calls validate_mfa(fid, state_token, passcode).
validate_mfa ==
    /\ pc = "idle"
    /\ constructed
    /\ CallStart("validate_mfa")
    /\ \E f \in {FactorIds[1]}, st \in StateTokens, p \in Passcodes :
        /\ fid' = f
        /\ state_token' = st
        /\ passcode' = p
        /\ IF PasscodeOk(p)
           THEN pc' = "mfa_request" /\ outcome' = NoOutcome
           ELSE Finish(Returned("False"))
    /\ UNCHANGED <<organization, username, password, constructed, session_token>>
    /\ UNCHANGED awsVars

\* okta.py:148-152  the except clause: 403 returns False; for any other
\* HTTPError the argument of UnknownError, e.response.body, is evaluated
\* first, and a requests Response has no attribute `body`.
MfaOnHTTPError(r) ==
    IF r.code = 403 THEN Returned("False")
    ELSE Raised("AttributeError", "body")

\* okta.py:142-155  the POST of the passcode and what validate_mfa does with
\* the answer.
mfa_request ==
    /\ pc = "mfa_request"
    /\ \E r \in VerifyResponses :
        /\ requests' = Append(requests, Req("/authn/factors/verify", fid, TRUE))
        /\ mfa_ret' = r
        /\ LET q == _request(r)
               t == set_token(r)
           IN  IF q = "ValueError"
               THEN Finish(Raised("ValueError", NoArgs)) /\ UNCHANGED session_token
               ELSE IF q = "HTTPError"
               THEN Finish(MfaOnHTTPError(r)) /\ UNCHANGED session_token
               ELSE IF t.exc # None
               THEN Finish(Raised(t.exc, t.arg)) /\ UNCHANGED session_token
               ELSE Finish(Returned("True")) /\ session_token' = t.session_token
    /\ UNCHANGED <<organization, username, password, constructed, op, auth_ret,
                   i, fid, state_token, passcode, push_ret, polls, slept,
                   interrupted, token_before>>
    /\ UNCHANGED awsVars

\* ------------------------------------------------- the AWS session (aws.py)
\* self.expiration: None, or the datetime Amazon sent, in whole seconds.
NoneTime == [isNone |-> TRUE, secs |-> 0]
Datetime(t) == [isNone |-> FALSE, secs |-> t]

\* Expiration times Amazon may send: one that the times the properties are
\* read at (0..MaxNow) come before, meet and pass, and two that leave them
\* less than, exactly and more than the renewal buffer.
Expirations ==
    {Datetime(t) : t \in {1, RenewalBuffer, RenewalBuffer + 1}}

\* aws.py:171, 184  str(self.expiration): the text of a datetime, field by
\* field, or the text "None".
str(e) ==
    IF e.isNone
    THEN [text |-> "None", d |-> 0, H |-> 0, M |-> 0, S |-> 0]
    ELSE [text |-> "%Y-%m-%d %H:%M:%S+00:00",
          d |-> e.secs \div 86400,
          H |-> (e.secs % 86400) \div 3600,
          M |-> (e.secs % 3600) \div 60,
          S |-> e.secs % 60]

\* aws.py:171-172, 184-185  datetime.strptime(text, '%Y-%m-%d %H:%M:%S+00:00'):
\* the time the text stands for, or ValueError when it is not of the format.
strptime(x) ==
    IF x.text # "%Y-%m-%d %H:%M:%S+00:00"
    THEN [exc |-> "ValueError", secs |-> 0]
    ELSE [exc |-> None, secs |-> x.d * 86400 + x.H * 3600 + x.M * 60 + x.S]

\* The roles of an assertion, named by position.
RoleNames == <<"arn:aws:iam::1:role/a", "arn:aws:iam::1:role/b",
               "arn:aws:iam::1:role/c", "arn:aws:iam::1:role/d">>

Role(k) == [role |-> RoleNames[k], principle |-> "arn:aws:iam::1:saml-provider/okta"]

\* The assertion as self.assertion.roles() reads it: XML that does not parse,
\* or XML that names 0..MaxRoles roles.
Assertions ==
    {[wellformed |-> FALSE, roles |-> <<>>]}
    \cup {[wellformed |-> TRUE, roles |-> [k \in 1..n |-> Role(k)]] : n \in 0..MaxRoles}

NoAssertion == [wellformed |-> FALSE, roles |-> <<>>]

\* The profile names a caller passes to Session(...); "default" is the
\* default of the argument.
Profiles == {"default", "work"}

\* What the user types at the prompt: a whole number, or text that is none.
NoInput == [numeric |-> FALSE, n |-> 0, typed |-> FALSE]
Selections ==
    {[numeric |-> TRUE, n |-> k, typed |-> TRUE] : k \in (-1)..(MaxRoles + 1)}
    \cup {[numeric |-> FALSE, n |-> 0, typed |-> TRUE]}

\* What assume_role_with_saml answers: an error, or credentials.
NoStsResponse ==
    [error |-> FALSE, AccessKeyId |-> Absent, SecretAccessKey |-> Absent,
     SessionToken |-> Absent, Expiration |-> NoneTime]
StsError ==
    [error |-> TRUE, AccessKeyId |-> Absent, SecretAccessKey |-> Absent,
     SessionToken |-> Absent, Expiration |-> NoneTime]
StsCredentials ==
    {[error |-> FALSE, AccessKeyId |-> k[1], SecretAccessKey |-> k[2],
      SessionToken |-> k[3], Expiration |-> e]
        : k \in {<<"AKIA1", "secret1", "token1">>, <<"AKIA2", "secret2", "token2">>},
          e \in Expirations}
StsResponses == {StsError} \cup StsCredentials

\* The fields of the Session a call may change.
Fields ==
    [profile |-> profile,
     aws_access_key_id |-> aws_access_key_id,
     aws_secret_access_key |-> aws_secret_access_key,
     aws_session_token |-> aws_session_token,
     session_token |-> sess_session_token,
     expiration |-> expiration]

\* One call of self.writer.add_profile (aws.py:61-86).
Profile(name, access_key, secret_key, token) ==
    [name |-> name, access_key |-> access_key, secret_key |-> secret_key,
     session_token |-> token]

\* Python's list[idx] on a list of n items: the 1-based position read, or 0
\* for IndexError.  A negative idx counts from the end.
ListIndex(n, idx) ==
    IF idx >= 0 /\ idx < n THEN idx + 1
    ELSE IF idx < 0 /\ idx >= 0 - n THEN n + idx + 1
    ELSE 0

\* What every call of a Session method resets as it starts.
AwsCallStart(o) ==
    /\ aws_op' = o
    /\ prompts' = 0
    /\ role_selection' = NoInput
    /\ sts_requests' = <<>>
    /\ sts_response' = NoStsResponse
    /\ written' = <<>>
    /\ before' = Fields

\* aws.py:129-157  Session(assertion, profile=...)
Session_init ==
    /\ ~session_made
    /\ \E a \in Assertions, p \in Profiles :
        /\ assertion' = a
        /\ profile' = p
    /\ session_made' = TRUE
    /\ aws_access_key_id' = None
    /\ aws_secret_access_key' = None
    /\ aws_session_token' = None
    /\ expiration' = NoneTime
    /\ aws_outcome' = Returned(None)
    /\ AwsCallStart("__init__")
    /\ UNCHANGED <<sess_session_token, now, latest>>
    /\ UNCHANGED oktaVars

\* RenewalCompare with <= for <.
RenewalCompare_Le(t, expiration_time) ==
    (t + RenewalBuffer) <= expiration_time

\* aws.py:174  (now + renewal_buffer) < expiration_time
RenewalCompare(t, expiration_time) ==
    (t + RenewalBuffer) < expiration_time

\* ValidCompare with <= for <.
ValidCompare_Le(t, expiration_time) ==
    t <= expiration_time

\* aws.py:187  now < expiration_time
ValidCompare(t, expiration_time) ==
    t < expiration_time

Bool(b) == IF b THEN Returned("True") ELSE Returned("False")

\* aws.py:159-174  the caller reads session.is_within_renewal_buffer.
is_within_renewal_buffer ==
    /\ session_made
    /\ \E t \in 0..MaxNow :
        /\ now' = t
        /\ LET expiration_time == strptime(str(expiration))
           IN  aws_outcome' =
                 IF expiration_time.exc # None
                 THEN Raised(expiration_time.exc, NoArgs)
                 ELSE Bool(RenewalCompare(t, expiration_time.secs))
    /\ AwsCallStart("is_within_renewal_buffer")
    /\ UNCHANGED <<session_made, assertion, profile, aws_access_key_id,
                   aws_secret_access_key, aws_session_token, sess_session_token,
                   expiration, latest>>
    /\ UNCHANGED oktaVars

\* aws.py:176-187  the caller reads session.is_session_valid.
is_session_valid ==
    /\ session_made
    /\ \E t \in 0..MaxNow :
        /\ now' = t
        /\ LET expiration_time == strptime(str(expiration))
           IN  aws_outcome' =
                 IF expiration_time.exc # None
                 THEN Raised(expiration_time.exc, NoArgs)
                 ELSE Bool(ValidCompare(t, expiration_time.secs))
    /\ AwsCallStart("is_session_valid")
    /\ UNCHANGED <<session_made, assertion, profile, aws_access_key_id,
                   aws_secret_access_key, aws_session_token, sess_session_token,
                   expiration, latest>>
    /\ UNCHANGED oktaVars

\* aws.py:228-241  _write: two calls of add_profile, with the fields as
\* they are when it runs.
_write(prof, access_key, secret_key, token) ==
    <<Profile("default", access_key, secret_key, token),
      Profile(prof, access_key, secret_key, token)>>

\* aws.py:214-226  the call of assume_role_with_saml for the role at
\* position k, the four assignments and _write; prof is self.profile by then.
AssumeWith(k, prof, resp) ==
    /\ sts_requests' = <<[RoleArn |-> assertion.roles[k].role,
                          PrincipalArn |-> assertion.roles[k].principle]>>
    /\ sts_response' = resp
    /\ profile' = prof
    /\ IF resp.error
       THEN /\ aws_outcome' = Raised("ClientError", NoArgs)
            /\ written' = <<>>
            /\ UNCHANGED <<aws_access_key_id, aws_secret_access_key,
                           sess_session_token, expiration, latest>>
       ELSE /\ aws_access_key_id' = resp.AccessKeyId
            /\ aws_secret_access_key' = resp.SecretAccessKey
            /\ sess_session_token' = resp.SessionToken
            /\ expiration' = resp.Expiration
            /\ latest' = resp
            /\ written' = _write(prof, resp.AccessKeyId, resp.SecretAccessKey,
                                 resp.SessionToken)
            /\ aws_outcome' = Returned(None)

\* assume_role ends with exception e before assume_role_with_saml is called.
AssumeFails(e, a) ==
    /\ aws_outcome' = Raised(e, a)
    /\ sts_requests' = <<>>
    /\ sts_response' = NoStsResponse
    /\ written' = <<>>
    /\ UNCHANGED <<profile, aws_access_key_id, aws_secret_access_key,
                   sess_session_token, expiration, latest>>

\* aws.py:209-212  input() evaluates what was typed; one is taken off the
\* number and the list of roles is indexed with the result.
AssumeSelected(sel, resp) ==
    LET n == Len(assertion.roles)
        k == ListIndex(n, sel.n - 1)
    IN  IF ~sel.numeric
        THEN AssumeFails("NameError", NoArgs)
        ELSE IF k = 0
        THEN AssumeFails("IndexError", NoArgs)
        ELSE AssumeWith(k, assertion.roles[k].role, resp)

\* AssumeOne with self.profile set to the name of the only role.
AssumeOne_RoleProfile(resp) ==
    AssumeWith(1, assertion.roles[1].role, resp)

\* aws.py:197, 203, 214  one role: no prompt, self.profile as it is.
AssumeOne(resp) ==
    AssumeWith(1, profile, resp)

\* aws.py:189-226  the caller calls assume_role().
assume_role ==
    /\ session_made
    /\ aws_op' = "assume_role"
    /\ before' = Fields
    /\ IF ~assertion.wellformed
       THEN /\ AssumeFails("InvalidSaml", NoArgs)
            /\ prompts' = 0
            /\ role_selection' = NoInput
       ELSE IF Len(assertion.roles) = 0
       THEN /\ AssumeFails("IndexError", NoArgs)
            /\ prompts' = 0
            /\ role_selection' = NoInput
       ELSE IF Len(assertion.roles) > 1
       THEN \E sel \in Selections, resp \in StsResponses :
              /\ prompts' = 1
              /\ role_selection' = sel
              /\ AssumeSelected(sel, resp)
       ELSE \E resp \in StsResponses :
              /\ prompts' = 0
              /\ role_selection' = NoInput
              /\ AssumeOne(resp)
    /\ UNCHANGED <<session_made, assertion, aws_session_token, now>>
    /\ UNCHANGED oktaVars

\* ----------------------------------------------------------- specification
\* Before Okta(...) and Session(...) are called: nothing is constructed.
Init ==
    /\ organization = None
    /\ username = None
    /\ password = None
    /\ constructed = FALSE
    /\ session_token = None
    /\ op = "none"
    /\ pc = "idle"
    /\ outcome = NoOutcome
    /\ requests = <<>>
    /\ auth_ret = NoResponse
    /\ i = 0
    /\ fid = NoArgs
    /\ state_token = NoArgs
    /\ passcode = <<>>
    /\ push_ret = NoResponse
    /\ mfa_ret = NoResponse
    /\ polls = 0
    /\ slept = FALSE
    /\ interrupted = FALSE
    /\ token_before = None
    /\ session_made = FALSE
    /\ assertion = NoAssertion
    /\ profile = None
    /\ aws_access_key_id = None
    /\ aws_secret_access_key = None
    /\ aws_session_token = None
    /\ sess_session_token = Absent
    /\ expiration = NoneTime
    /\ aws_op = "none"
    /\ aws_outcome = NoOutcome
    /\ prompts = 0
    /\ role_selection = NoInput
    /\ sts_requests = <<>>
    /\ sts_response = NoStsResponse
    /\ written = <<>>
    /\ now = 0
    /\ before = [profile |-> None, aws_access_key_id |-> None,
                 aws_secret_access_key |-> None, aws_session_token |-> None,
                 session_token |-> Absent, expiration |-> NoneTime]
    /\ latest = NoStsResponse

\* The Okta object: the Session is left alone.
Next ==
    \/ __init__
    \/ auth
    \/ auth_request
    \/ auth_push_loop
    \/ auth_totp_loop
    \/ okta_verify_with_push
    \/ push_trigger
    \/ push_sleep
    \/ push_next
    \/ push_interrupt
    \/ validate_mfa
    \/ mfa_request

Spec == Init /\ [][Next]_vars

\* The Session object: the Okta object is left alone.
NextAws ==
    \/ Session_init
    \/ is_within_renewal_buffer
    \/ is_session_valid
    \/ assume_role

SpecAws == Init /\ [][NextAws]_vars

\* ------------------------------------------------------------------ claims
\* The call of method o has ended.
Done(o) == op = o /\ pc = "idle"

\* The response passed _request: its body parsed and raise_for_status let it
\* through.
Passed(r) == r.json /\ r.code < 400 /\ r.code # 0

IsMfaStatus(r) == r.status \in {"MFA_REQUIRED", "MFA_CHALLENGE"}

Offers(r, t) == \E k \in DOMAIN r.factors : r.factors[k].factorType = t

\* The verify requests of the call that carry no passcode: the pushes
\* triggered.
PushRequests ==
    {k \in DOMAIN requests :
        requests[k].path = "/authn/factors/verify" /\ ~requests[k].passCode}

\* C1: whenever organization, username or password is empty ('' or None),
\* Okta(...) raises EmptyInput, no object exists and no request was issued.
Thm_C1_EmptyInput ==
    (\E u \in {organization, username, password} : u = "" \/ u = None)
    => /\ ~constructed
       /\ requests = <<>>
       /\ op = "__init__" => outcome = Raised("EmptyInput", NoArgs)

Wit_C1_EmptyInput ==
    /\ op = "__init__"
    /\ organization = "acme" /\ username = "" /\ password = None
    /\ outcome.kind = "EmptyInput"

\* C2: when the one POST to /authn is answered 2xx with status SUCCESS (and
\* a sessionToken), auth returns with session_token equal to that
\* sessionToken, after exactly one request and no verify request.
Claim_C2_SuccessToken ==
    (/\ Done("auth")
     /\ auth_ret.json /\ auth_ret.code \in 200..299
     /\ auth_ret.status = "SUCCESS"
     /\ auth_ret.sessionToken # Absent)
    => /\ outcome = Returned(None)
       /\ session_token = auth_ret.sessionToken
       /\ requests = <<Req("/authn", NoArgs, FALSE)>>

\* What does hold of C2's case: when the SUCCESS answer also carries the
\* profile names set_token reads, auth ends as C2 says.
Lemma_C2_WithProfile ==
    (/\ Done("auth")
     /\ auth_ret.json /\ auth_ret.code \in 200..299
     /\ auth_ret.status = "SUCCESS"
     /\ auth_ret.sessionToken # Absent
     /\ auth_ret.profile)
    => /\ outcome = Returned(None)
       /\ session_token = auth_ret.sessionToken
       /\ requests = <<Req("/authn", NoArgs, FALSE)>>

\* C3: a 401 on /authn, whatever its body, makes auth raise InvalidPassword
\* and nothing else.
Claim_C3_InvalidPassword ==
    (Done("auth") /\ auth_ret.code = 401)
    => outcome = Raised("InvalidPassword", NoArgs)

\* What does hold of C3's case: a 401 whose body parses as JSON.
Lemma_C3_JsonBody ==
    (Done("auth") /\ auth_ret.code = 401 /\ auth_ret.json)
    => outcome = Raised("InvalidPassword", NoArgs)

\* C4: any non-2xx answer on /authn other than 401 makes auth raise
\* UnknownError carrying the response body.  Stated on the answers the
\* claim names, 4xx and 5xx, with a body that parses.
Claim_C4_UnknownError ==
    (/\ Done("auth")
     /\ auth_ret.json
     /\ auth_ret.code \in 400..599
     /\ auth_ret.code # 401)
    => outcome = Raised("UnknownError", ResponseBody)

\* C5: in MFA dispatch, for every ordering of the factors: (1) when a push
\* factor is offered, PasscodeRequired is only raised after a push verify
\* request was issued; (2) when no push factor is offered and a totp factor
\* is, auth raises PasscodeRequired with the (first) totp factor's id and
\* the login response's stateToken, the /authn request being the only one.
Thm_C5_MfaDispatch ==
    /\ (/\ op = "auth"
        /\ outcome.kind = "PasscodeRequired"
        /\ Offers(auth_ret, "push"))
       => PushRequests # {}
    /\ (/\ Done("auth")
        /\ Passed(auth_ret)
        /\ IsMfaStatus(auth_ret)
        /\ auth_ret.stateToken # Absent
        /\ ~Offers(auth_ret, "push")
        /\ Offers(auth_ret, "token:software:totp"))
       => /\ \E k \in DOMAIN auth_ret.factors :
               /\ auth_ret.factors[k].factorType = "token:software:totp"
               /\ \A m \in 1..(k - 1) :
                     auth_ret.factors[m].factorType # "token:software:totp"
               /\ outcome = PasscodeRequired(auth_ret.factors[k].id,
                                             auth_ret.stateToken)
          /\ requests = <<Req("/authn", NoArgs, FALSE)>>

\* A push was offered and tried, and the passcode is asked for after it.
Wit_C5_MfaDispatch ==
    /\ Done("auth")
    /\ outcome.kind = "PasscodeRequired"
    /\ Len(auth_ret.factors) = 2
    /\ auth_ret.factors[1].factorType = "token:software:totp"
    /\ auth_ret.factors[2].factorType = "push"
    /\ PushRequests # {}

\* C6: a KeyboardInterrupt during the push poll inside auth is not raised by
\* auth; no request is issued after it; auth raises PasscodeRequired when a
\* totp factor is offered; session_token stays what it was.
Thm_C6_InterruptFallsThrough ==
    /\ [](op = "auth" /\ interrupted
            => /\ outcome.kind # "KeyboardInterrupt"
               /\ session_token = token_before
               /\ (pc = "idle" /\ Offers(auth_ret, "token:software:totp"))
                     => outcome.kind = "PasscodeRequired")
    /\ [][(op = "auth" /\ interrupted /\ pc # "idle") => requests' = requests]_vars

\* Two push factors before a totp factor: the interrupt came during the
\* first push, the second push was never triggered, the passcode is asked.
Wit_C6_InterruptFallsThrough ==
    /\ Done("auth")
    /\ interrupted
    /\ Len(auth_ret.factors) = 3
    /\ auth_ret.factors[1].factorType = "push"
    /\ auth_ret.factors[2].factorType = "push"
    /\ auth_ret.factors[3].factorType = "token:software:totp"
    /\ Cardinality(PushRequests) = 1
    /\ polls = 1
    /\ outcome = PasscodeRequired("f3", "st1")

\* C7 as stated: interrupted during its sleep, okta_verify_with_push returns
\* to its caller without raising.
Claim_C7_ReturnsWithoutRaising ==
    (Done("okta_verify_with_push") /\ interrupted)
    => outcome.kind = "return"

\* C7, amended: interrupted during its sleep, okta_verify_with_push ends at
\* once by raising KeyboardInterrupt to its caller, with session_token as it
\* was and the sleep not finished.
Thm_C7_InterruptRaises ==
    (op = "okta_verify_with_push" /\ interrupted)
    => /\ pc = "idle"
       /\ outcome = Raised("KeyboardInterrupt", NoArgs)
       /\ session_token = token_before
       /\ ~slept

Wit_C7_InterruptRaises ==
    /\ Done("okta_verify_with_push")
    /\ interrupted
    /\ polls = 1

\* C8: a non-SUCCESS response with factorResult REJECTED or without
\* factorResult makes okta_verify_with_push return False with no sleep
\* between the response and the return, and session_token not set.
Claim_C8_RejectedImmediately ==
    (/\ Done("okta_verify_with_push")
     /\ Passed(push_ret)
     /\ push_ret.status \notin {"SUCCESS", Absent}
     /\ push_ret.factorResult \in {"REJECTED", Absent})
    => /\ outcome = Returned("False")
       /\ ~slept
       /\ session_token = token_before

\* C9: validate_mfa with a passcode of any length but 6 returns False,
\* issues no request and leaves session_token as it was.
Thm_C9_PasscodeLength ==
    (op = "validate_mfa" /\ Len(passcode) # 6)
    => /\ pc = "idle"
       /\ outcome = Returned("False")
       /\ requests = <<>>
       /\ session_token = token_before

Wit_C9_PasscodeLength ==
    /\ Done("validate_mfa")
    /\ Len(passcode) = 7
    /\ session_token \in Tokens

\* C10: with a 6-character passcode validate_mfa issues exactly one verify
\* request; it returns True exactly when the answer is 2xx, and then
\* session_token is that answer's sessionToken; on a 403 it returns False
\* with session_token as it was.  This is the claim on a 403 ...
Claim_C10_PasscodeVerify ==
    (Done("validate_mfa") /\ Len(passcode) = 6 /\ mfa_ret.code = 403)
    => /\ requests = <<Req("/authn/factors/verify", fid, TRUE)>>
       /\ outcome = Returned("False")
       /\ session_token = token_before

\* ... and this is the claim on a 2xx answer (with a sessionToken).
Claim_C10_TrueOn2xx ==
    (/\ Done("validate_mfa") /\ Len(passcode) = 6
     /\ mfa_ret.json /\ mfa_ret.code \in 200..299
     /\ mfa_ret.sessionToken # Absent)
    => /\ requests = <<Req("/authn/factors/verify", fid, TRUE)>>
       /\ outcome = Returned("True")
       /\ session_token = mfa_ret.sessionToken

\* What does hold of C10's case: exactly one request whatever the answer;
\* True exactly when the answer passed _request and carries what set_token
\* reads, with session_token that answer's sessionToken; False on a 403
\* whose body parses; session_token as it was in every other case.
Lemma_C10_PasscodeVerify ==
    (Done("validate_mfa") /\ Len(passcode) = 6)
    => /\ requests = <<Req("/authn/factors/verify", fid, TRUE)>>
       /\ outcome = Returned("True")
            <=> (Passed(mfa_ret) /\ mfa_ret.profile /\ mfa_ret.sessionToken # Absent)
       /\ outcome = Returned("True") => session_token = mfa_ret.sessionToken
       /\ outcome # Returned("True") => session_token = token_before
       /\ (mfa_ret.code = 403 /\ mfa_ret.json) => outcome = Returned("False")

\* -------------------------------------------------- claims C16 to C19 (Okta)
\* A verify response that says the push is still waiting: the body parsed,
\* it has a status other than SUCCESS, and the factorResult is neither
\* REJECTED nor left out.
Pending(r) ==
    /\ Passed(r)
    /\ r.status \notin {"SUCCESS", Absent}
    /\ r.factorResult \notin {"REJECTED", Absent}

\* A response the provider means as success: 2xx, a JSON body, status
\* SUCCESS and a sessionToken.
IsSuccess(r) ==
    /\ r.json
    /\ r.code \in 200..299
    /\ r.status = "SUCCESS"
    /\ r.sessionToken # Absent

\* The requests of a push verification called directly: the trigger, then
\* nothing but re-requests of the `next` link, one per response followed.
PushRequestShape ==
    /\ Len(requests) = 1 + polls
    /\ requests[1] = Req("/authn/factors/verify", fid, FALSE)
    /\ \A k \in 2..Len(requests) : requests[k] = Req(Href, fid, FALSE)

\* C16: okta_verify_with_push does not end on a pending response unless it
\* is interrupted, and once a response with status SUCCESS has come it has
\* returned True, having issued one trigger request and one re-request of
\* the `next` link per pending response before it.
Claim_C16_PushTerminates ==
    /\ (op = "okta_verify_with_push" /\ requests # <<>> /\ IsSuccess(push_ret))
        => /\ pc = "idle"
           /\ outcome = Returned("True")
           /\ PushRequestShape
    /\ (Done("okta_verify_with_push") /\ Pending(push_ret)) => interrupted

\* What does hold of C16's case: a pending response that carries the
\* `next` link never ends the call unless it is interrupted; the
\* requests are the trigger and one re-request per response followed; True
\* is returned exactly on a SUCCESS response that carries what set_token
\* reads.
Lemma_C16_PushTerminates ==
    /\ (Done("okta_verify_with_push") /\ Pending(push_ret)
        /\ push_ret.links = "href")
        => interrupted
    /\ (op = "okta_verify_with_push" /\ requests # <<>>) => PushRequestShape
    /\ Done("okta_verify_with_push")
        => (outcome = Returned("True")
            <=> (Passed(push_ret) /\ push_ret.status = "SUCCESS"
                 /\ push_ret.profile /\ push_ret.sessionToken # Absent))

\* The push verification that ran last in this call ended rejected:
\* okta_verify_with_push slept on a response whose factorResult was
\* REJECTED, and returned False.
LastPushRejected ==
    /\ Passed(push_ret)
    /\ push_ret.status \notin {"SUCCESS", Absent}
    /\ push_ret.factorResult = "REJECTED"
    /\ slept

\* C17: when the push verification triggered by auth is rejected, auth does
\* not end in UnknownError, and it has triggered no other push verification
\* in the same call.
Claim_C17_RejectedPush ==
    (Done("auth") /\ LastPushRejected)
    => /\ outcome.kind # "UnknownError"
       /\ Cardinality(PushRequests) = 1

\* What does hold of C17's case: after a rejected push auth goes on with the
\* next push factor; with none left it raises PasscodeRequired for the first
\* totp factor, or UnknownError with the login status when no totp factor
\* is offered.  The session token is as it was.
Lemma_C17_RejectedPush ==
    (Done("auth") /\ LastPushRejected)
    => /\ Cardinality(PushRequests) >= 1
       /\ FirstFactor(auth_ret.factors, "push", i + 1) = 0
       /\ IF Offers(auth_ret, "token:software:totp")
          THEN outcome.kind = "PasscodeRequired"
          ELSE outcome = Raised("UnknownError", auth_ret.status)
       /\ session_token = token_before

\* The login response asked for enrollment.
IsEnroll(r) == Passed(r) /\ r.status \in {"MFA_ENROLL", "MFA_ENROLL_ACTIVATE"}

\* The login response carried a status auth does not know.
IsUnrecognized(r) ==
    /\ Passed(r)
    /\ r.status \notin {"SUCCESS", "MFA_ENROLL", "MFA_ENROLL_ACTIVATE",
                        "MFA_REQUIRED", "MFA_CHALLENGE"}

\* C18 as stated: on MFA_ENROLL or MFA_ENROLL_ACTIVATE auth ends in an
\* outcome of another kind than the UnknownError raised for unrecognized
\* statuses, with the login request the only request and the session token
\* as it was.
Claim_C18_EnrollmentRequired ==
    /\ (Done("auth") /\ IsEnroll(auth_ret))
        => /\ outcome.kind \notin {"return", "none", "UnknownError"}
           /\ requests = <<Req("/authn", NoArgs, FALSE)>>
           /\ session_token = token_before
    /\ (Done("auth") /\ IsUnrecognized(auth_ret)) => outcome.kind = "UnknownError"

\* C18: on MFA_ENROLL or MFA_ENROLL_ACTIVATE auth raises UnknownError with
\* no argument, where an unrecognized status raises UnknownError carrying
\* the status (None when the response has none); the login request is the
\* only request and the session token is as it was.
Thm_C18_EnrollRaisesUnknown ==
    /\ (Done("auth") /\ IsEnroll(auth_ret))
        => /\ outcome = Raised("UnknownError", NoArgs)
           /\ requests = <<Req("/authn", NoArgs, FALSE)>>
           /\ session_token = token_before
    /\ (Done("auth") /\ IsUnrecognized(auth_ret))
        => /\ outcome.kind = "UnknownError"
           /\ outcome.arg = (IF auth_ret.status = Absent THEN None ELSE auth_ret.status)
           /\ outcome.arg # NoArgs

\* auth has ended on an MFA_ENROLL_ACTIVATE response, after an earlier call
\* had stored a session token.
Wit_C18_EnrollRaisesUnknown ==
    /\ Done("auth")
    /\ IsEnroll(auth_ret)
    /\ auth_ret.status = "MFA_ENROLL_ACTIVATE"
    /\ outcome = Raised("UnknownError", NoArgs)
    /\ token_before \in Tokens
    /\ session_token = token_before

\* The response the running call received last.
LatestResponse ==
    IF requests = <<>> THEN NoResponse
    ELSE IF op = "validate_mfa" THEN mfa_ret
    ELSE IF requests[Len(requests)].path = "/authn" THEN auth_ret
    ELSE push_ret

\* This step received a response.
Received == Len(requests') = Len(requests) + 1

\* C19: the stored session token changes only in a step that receives a
\* successful response, to that response's sessionToken; every step that
\* receives a successful response stores its sessionToken; and a call that
\* ended in InvalidPassword, PasscodeRequired, False, KeyboardInterrupt or
\* UnknownError has left the token as it was when the call started.
Claim_C19_TokenInvariant ==
    /\ [](session_token = None \/ session_token \in Tokens)
    /\ [][/\ (Received /\ IsSuccess(LatestResponse'))
              => session_token' = LatestResponse'.sessionToken
          /\ session_token' # session_token
              => /\ Received
                 /\ IsSuccess(LatestResponse')
                 /\ session_token' = LatestResponse'.sessionToken
          /\ (pc' = "idle"
              /\ \/ outcome'.kind \in {"InvalidPassword", "PasscodeRequired",
                                       "KeyboardInterrupt", "UnknownError"}
                 \/ outcome' = Returned("False"))
              => session_token' = token_before']_vars

\* What does hold of C19's case: the same, with "successful response" read
\* as a response that passed _request and carries the profile names and the
\* sessionToken that set_token reads (and, outside validate_mfa, the status
\* SUCCESS).
Lemma_C19_TokenInvariant ==
    /\ [](session_token = None \/ session_token \in Tokens)
    /\ [][/\ (/\ Received
              /\ Passed(LatestResponse')
              /\ LatestResponse'.profile
              /\ LatestResponse'.sessionToken # Absent
              /\ (op = "validate_mfa" \/ LatestResponse'.status = "SUCCESS"))
              => session_token' = LatestResponse'.sessionToken
          /\ session_token' # session_token
              => /\ Received
                 /\ Passed(LatestResponse')
                 /\ LatestResponse'.profile
                 /\ session_token' = LatestResponse'.sessionToken
          /\ (pc' = "idle"
              /\ \/ outcome'.kind \in {"InvalidPassword", "PasscodeRequired",
                                       "KeyboardInterrupt", "UnknownError"}
                 \/ outcome' = Returned("False"))
              => session_token' = token_before']_vars

\* ------------------------------------------ claims C11 to C15, C20 (Session)
\* The last call of the Session was a read of validity property o that met
\* an expiration Amazon had sent.
Read(o) == aws_op = o /\ ~expiration.isNone

\* C11 as stated: is_within_renewal_buffer is False exactly when fewer than
\* 600 seconds remain (expiration - now < 600) and True otherwise, so True
\* when exactly 600 seconds remain.
Claim_C11_RenewalBuffer ==
    Read("is_within_renewal_buffer")
    => /\ aws_outcome = Returned("False") <=> expiration.secs - now < 600
       /\ aws_outcome = Returned("True") <=> expiration.secs - now >= 600

\* C11: is_within_renewal_buffer is False exactly when no more than 600
\* seconds remain (expiration - now <= 600) and True otherwise, so False
\* when exactly 600 seconds remain.
Thm_C11_RenewalBuffer ==
    Read("is_within_renewal_buffer")
    => /\ aws_outcome = Returned("False") <=> expiration.secs - now <= 600
       /\ aws_outcome = Returned("True") <=> expiration.secs - now > 600

\* The property was read with exactly 600 seconds remaining, at a time
\* other than 0, and gave False.
Wit_C11_RenewalBuffer ==
    /\ Read("is_within_renewal_buffer")
    /\ now > 0
    /\ expiration.secs - now = 600
    /\ aws_outcome = Returned("False")

\* C12: is_session_valid is True exactly when now < expiration: False when
\* now equals expiration and at every later time.
Thm_C12_SessionValid ==
    Read("is_session_valid")
    => /\ aws_outcome = Returned("True") <=> now < expiration.secs
       /\ aws_outcome = Returned("False") <=> now >= expiration.secs

\* The property was read at the very second of expiration and gave False.
Wit_C12_SessionValid ==
    /\ Read("is_session_valid")
    /\ now > 0
    /\ now = expiration.secs
    /\ aws_outcome = Returned("False")

\* The assertion names several roles and the user was asked to pick one.
Asked == aws_op = "assume_role" /\ Len(assertion.roles) > 1 /\ role_selection.typed

\* What was typed is a number in 1..N.
ValidSelection == role_selection.numeric /\ role_selection.n \in 1..Len(assertion.roles)

\* C13: with several roles, a selection that is not a number in 1..N is
\* rejected and asked for again, and no role is assumed on it; the role
\* passed to assume_role_with_saml is the one at the position validly
\* chosen.
Claim_C13_InvalidSelection ==
    /\ (Asked /\ ~ValidSelection)
        => /\ sts_requests = <<>>
           /\ written = <<>>
           /\ prompts > 1
    /\ (Asked /\ sts_requests # <<>>)
        => /\ ValidSelection
           /\ sts_requests[1].RoleArn = assertion.roles[role_selection.n].role

\* What does hold of C13's case: the user is asked once; a selection in 1..N
\* assumes the role at that position; 0 and the negative numbers down to -N+1
\* assume the role counted from the end of the list; any other number ends
\* the call in IndexError, text that is no number in NameError.
Lemma_C13_InvalidSelection ==
    Asked
    => /\ prompts = 1
       /\ ValidSelection
           => /\ Len(sts_requests) = 1
              /\ sts_requests[1].RoleArn = assertion.roles[role_selection.n].role
       /\ (role_selection.numeric /\ role_selection.n \in (1 - Len(assertion.roles))..0)
           => /\ Len(sts_requests) = 1
              /\ sts_requests[1].RoleArn =
                    assertion.roles[Len(assertion.roles) + role_selection.n].role
       /\ (role_selection.numeric
           /\ role_selection.n \notin (1 - Len(assertion.roles))..Len(assertion.roles))
           => aws_outcome = Raised("IndexError", NoArgs) /\ sts_requests = <<>>
       /\ ~role_selection.numeric
           => aws_outcome = Raised("NameError", NoArgs) /\ sts_requests = <<>>

\* C14: on a well-formed assertion with no role, assume_role raises
\* InvalidSaml, without calling assume_role_with_saml and without writing a
\* profile.
Claim_C14_NoRoles ==
    (aws_op = "assume_role" /\ assertion.wellformed /\ assertion.roles = <<>>)
    => /\ aws_outcome = Raised("InvalidSaml", NoArgs)
       /\ sts_requests = <<>>
       /\ written = <<>>

\* What does hold of C14's case: the call ends in IndexError, with no call of
\* assume_role_with_saml and no profile written; InvalidSaml is raised for
\* the assertion that does not parse.
Lemma_C14_NoRoles ==
    /\ (aws_op = "assume_role" /\ assertion.wellformed /\ assertion.roles = <<>>)
        => /\ aws_outcome = Raised("IndexError", NoArgs)
           /\ sts_requests = <<>>
           /\ written = <<>>
    /\ (aws_op = "assume_role" /\ ~assertion.wellformed)
        => /\ aws_outcome = Raised("InvalidSaml", NoArgs)
           /\ sts_requests = <<>>
           /\ written = <<>>

\* assume_role has returned.
Assumed == aws_op = "assume_role" /\ aws_outcome = Returned(None)

\* A profile written with the credentials of the answer of this call.
Fresh(w) ==
    /\ w.access_key = sts_response.AccessKeyId
    /\ w.secret_key = sts_response.SecretAccessKey
    /\ w.session_token = sts_response.SessionToken

\* C15 as stated: after a successful assume_role two profiles have been
\* written with the new credentials, one named default and one named for the
\* role assumed.
Claim_C15_TwoProfiles ==
    Assumed
    => /\ Len(written) = 2
       /\ \A k \in 1..2 : Fresh(written[k])
       /\ \E k \in 1..2 : written[k].name = "default"
       /\ \E k \in 1..2 : written[k].name = sts_requests[1].RoleArn

\* C15: after a successful assume_role two profiles have been written with
\* the new credentials, the first named default and the second named by
\* self.profile: the name of the role assumed when the assertion names
\* several roles, and what self.profile was before the call when it names
\* one.
Thm_C15_TwoProfiles ==
    Assumed
    => /\ Len(written) = 2
       /\ \A k \in 1..2 : Fresh(written[k])
       /\ written[1].name = "default"
       /\ written[2].name = profile
       /\ profile = (IF Len(assertion.roles) > 1
                     THEN sts_requests[1].RoleArn
                     ELSE before.profile)

\* assume_role has returned for an assertion with one role on a Session made
\* with profile "work": the profiles written are default and work.
Wit_C15_TwoProfiles ==
    /\ Assumed
    /\ Len(assertion.roles) = 1
    /\ before.profile = "work"
    /\ Len(written) = 2
    /\ written[1].name = "default"
    /\ written[2].name = "work"
    /\ Fresh(written[2])

\* The four fields aws.py:154-157 declares, as a tuple.
Stored == <<aws_access_key_id, aws_secret_access_key, aws_session_token, expiration>>

\* The same with the attribute assume_role stores the token in.
StoredAsAssigned ==
    <<aws_access_key_id, aws_secret_access_key, sess_session_token, expiration>>

\* The four values of an answer of assume_role_with_saml.
Of(resp) == <<resp.AccessKeyId, resp.SecretAccessKey, resp.SessionToken, resp.Expiration>>

\* C20: the stored access key id, secret access key, session token and
\* expiration are all unset or all those of the latest answer that carried
\* credentials; an assume_role that failed left them as they were and wrote
\* no profile; profiles are written only with all four set from the answer
\* of the same call.
Claim_C20_AllOrNothing ==
    session_made
    => /\ \/ Stored = <<None, None, None, NoneTime>>
          \/ (~latest.error /\ latest.AccessKeyId # Absent /\ Stored = Of(latest))
       /\ (aws_op = "assume_role" /\ aws_outcome.kind \in {"InvalidSaml", "ClientError"})
           => /\ Stored = <<before.aws_access_key_id, before.aws_secret_access_key,
                            before.aws_session_token, before.expiration>>
              /\ written = <<>>
       /\ written # <<>>
           => /\ Stored = Of(sts_response)
              /\ \A k \in DOMAIN written : Fresh(written[k])

\* What does hold of C20's case: the same of the attribute the token is
\* assigned to, self.session_token, which does not exist before the first
\* successful call; self.aws_session_token is None throughout.
Lemma_C20_AllOrNothing ==
    session_made
    => /\ aws_session_token = None
       /\ \/ StoredAsAssigned = <<None, None, Absent, NoneTime>>
          \/ (latest.AccessKeyId # Absent /\ StoredAsAssigned = Of(latest))
       /\ (aws_op = "assume_role" /\ aws_outcome.kind \in {"InvalidSaml", "ClientError"})
           => /\ StoredAsAssigned =
                    <<before.aws_access_key_id, before.aws_secret_access_key,
                      before.session_token, before.expiration>>
              /\ written = <<>>
       /\ written # <<>>
           => /\ StoredAsAssigned = Of(sts_response)
              /\ \A k \in DOMAIN written : Fresh(written[k])

====
